---- MODULE Spec2Model ----
(***************************************************************************)
(* The agent router of SK-Agentry (AI/src/api/agent/routers/agent.py):     *)
(* run_company_analysis and the six read endpoints, over the report,       *)
(* recommendation, agent and user tables.                                  *)
(*                                                                         *)
(* The router is in the source tree; the CRUD module (api.agent.cruds),    *)
(* the session provider (api.db.get_db) and the UserReport / Agent /       *)
(* RecommendedAgent models are not, and are modelled from the written      *)
(* specification (sections 2, 3 and 4.2).                                  *)
(*                                                                         *)
(* An optional value (Python's None) is a sequence of length 0 or 1.       *)
(* The three scale tiers are the strings "startup", "SMB", "enterprise"    *)
(* for the Korean labels of agent.py line 44, and "unknown" stands for the *)
(* label of lines 43 and 45.                                               *)
(***************************************************************************)
EXTENDS Integers, Sequences, FiniteSets, TLC

\* ---------------------------------------------------------------- bounds
MaxReports == 2      \* report ids handed out by the report table
MaxRecs == 1         \* longest recommended_agents list the analysis returns
ScaleBelow == 2      \* SpecTier: scales from -ScaleBelow ...
ScaleAbove == 302    \* ... to ScaleAbove

Users == {1, 2}                \* user_id of the registered users
Anonymous == 0                 \* a request that carries no credential
Requests == {"r1", "r2"}       \* concurrent /agent/analyze requests
OneAtATime == {"r1"}
AgentIds == {1, 2}
QueriedAgentIds == {1, 2, 3}
ReportIds == 1..MaxReports
Times == {0, 1}                \* the created_date values a clock hands out
ScaleRange == (0 - ScaleBelow)..ScaleAbove

VARIABLES
    users,      \* users table: user_id -> row
    agents,     \* agents table: set of rows
    reports,    \* committed user_reports rows
    recs,       \* committed recommended_agents rows
    next_id,    \* next primary key of user_reports
    next_rec,   \* next primary key of recommended_agents
    req,        \* each /agent/analyze request: position and locals
    completed,  \* history: user_id -> number of analyze requests that returned
    resp        \* the response of the GET call this step answered, if it was one

vars == <<users, agents, reports, recs, next_id, next_rec, req, completed, resp>>

\* ------------------------------------------------------------ data model
\* User row (user.py): the columns the router reads.
UserRow(uid, ind, sc, intr) ==
    [user_id |-> uid, name |-> uid, industry |-> ind, scale |-> sc,
     interests |-> intr, budget_size |-> 10 * uid]

\* Agent row: the catalog entity of the specification, section 3.
AgentRow(i) ==
    [agent_id |-> i, name |-> i, display_name |-> i, description |-> i,
     category |-> "cat", llm_type |-> "llm", language |-> "ko",
     features |-> <<i>>, is_active |-> (i = 1), image_url |-> i]

\* The recommendation list of length n: agent ids 1, 2, 1, 2, ...
RecList(n) == [i \in 1..n |-> ((i - 1) % 2) + 1]

RecLists == {RecList(n) : n \in 0..MaxRecs}

\* What analyze_company can return: the payload of section 4.3 with a list of
\* n recommendations, and payloads that lack one of the two keys the router
\* subscripts.
Payload(n) ==
    [summary_report_file |-> IF n % 2 = 0 THEN "a.md" ELSE "b.md",
     recommended_agents |-> RecList(n)]

Payloads ==
    {Payload(n) : n \in 0..MaxRecs}
    \cup {[recommended_agents |-> RecList(MaxRecs)]}
    \cup {[summary_report_file |-> "a.md"]}

HasKey(d, k) == k \in DOMAIN d

\* ----------------------------------------------- CRUD module (from the spec)
get_reports_by_user_id(uid) == {x \in reports : x.user_id = uid}

get_report_by_id(rid) == {x \in reports : x.id = rid}

get_recommended_agents_by_user(uid) == {x \in recs : x.user_id = uid}

crud_get_all_agents == agents

get_agent_by_id(aid) == {a \in agents : a.agent_id = aid}

read_report_markdown_content(report) == <<"content of", report.filename>>

\* The row create_user_report inserts: a fresh primary key and the default
\* created_date.
create_user_report(data, utcnow) ==
    [id |-> next_id, user_id |-> data.user_id, filename |-> data.filename,
     format |-> data.format, created_date |-> utcnow]

\* The rows create_recommended_agents inserts: one per list element.
create_recommended_agents(uid, recommended_agents) ==
    {[id |-> next_rec + i - 1, user_id |-> uid, agent |-> recommended_agents[i]] :
        i \in 1..Len(recommended_agents)}

\* ------------------------------------------------ run_company_analysis
\* Variant of latest_created_date: the query without its WHERE clause.
latest_created_date_any_user(uid) ==
    LET top == {x \in reports : \A y \in reports : y.created_date <= x.created_date}
    IN IF reports = {} THEN <<>> ELSE <<(CHOOSE x \in top : TRUE).created_date>>

\* agent.py 32-39: the newest report of the user, or None.
latest_created_date(uid) ==
    LET own == {x \in reports : x.user_id = uid}
        top == {x \in own : \A y \in own : y.created_date <= x.created_date}
    IN IF own = {} THEN <<>> ELSE <<(CHOOSE x \in top : TRUE).created_date>>

\* Variant of ScaleTier: the first threshold taken inclusively.
ScaleTier_inclusive(scale) ==
    IF scale <= 50 THEN "startup" ELSE IF scale < 300 THEN "SMB" ELSE "enterprise"

\* agent.py 44
ScaleTier(scale) ==
    IF scale < 50 THEN "startup" ELSE IF scale < 300 THEN "SMB" ELSE "enterprise"

\* agent.py 43, 45: an Enum column's value, or the fixed label when it is NULL
OrUnknown(col) == IF col # <<>> THEN col[1] ELSE "unknown"

\* agent.py 42-48
user_data(uid) ==
    [industry |-> OrUnknown(users[uid].industry),
     scale |-> ScaleTier(users[uid].scale),
     interests |-> OrUnknown(users[uid].interests),
     budget_size |-> users[uid].budget_size,
     created_date |-> latest_created_date(uid)]

IdleReq ==
    [pc |-> "idle", user |-> Anonymous, company_name |-> Anonymous,
     user_data |-> <<>>, result |-> <<>>, new_report |-> {}, new_recs |-> {}]

\* A request that has ended, and how: the handler's locals are gone.
Ended(outcome, u) == [IdleReq EXCEPT !.pc = outcome, !.user = u]

\* The registered users: one without interests, one without industry.
InitUsers ==
    [u \in Users |->
        IF u = 1 THEN UserRow(u, <<"it">>, 49, <<>>) ELSE UserRow(u, <<>>, 300, <<"ai">>)]

NoResponse ==
    [op |-> "none", caller |-> Anonymous, arg |-> 0, status |-> 0,
     reports |-> {}, agents |-> {}, recs |-> {}, text |-> <<>>]

Init ==
    /\ users = InitUsers
    /\ agents = {AgentRow(i) : i \in AgentIds}
    /\ reports = {}
    /\ recs = {}
    /\ next_id = 1
    /\ next_rec = 1
    /\ req = [r \in Requests |-> IdleReq]
    /\ completed = [u \in Users |-> 0]
    /\ resp = NoResponse

\* agent.py 28-48: the request of user u starts; the latest-report query runs
\* and the profile summary is built.
Lookup(r, u) ==
    /\ req[r].pc = "idle"
    /\ req' = [req EXCEPT ![r] =
                 [pc |-> "analyze", user |-> u, company_name |-> users[u].name,
                  user_data |-> user_data(u), result |-> <<>>,
                  new_report |-> {}, new_recs |-> {}]]
    /\ resp' = NoResponse
    /\ UNCHANGED <<users, agents, reports, recs, next_id, next_rec, completed>>

\* Variant of PropagateError: the exception is caught and the handler goes
\* on to its return statement.
SwallowError(r) ==
    /\ req' = [req EXCEPT ![r].pc = "return"]
    /\ resp' = NoResponse
    /\ UNCHANGED <<users, agents, reports, recs, next_id, next_rec, completed>>

\* agent.py 51-54: load_vector_db and analyze_company. No try/except stands
\* anywhere in the handler: an exception ends the request, and the session
\* is released with nothing committed.
PropagateError(r) ==
    /\ req' = [req EXCEPT ![r] = Ended("error", req[r].user)]
    /\ resp' = NoResponse
    /\ UNCHANGED <<users, agents, reports, recs, next_id, next_rec, completed>>

\* agent.py 51, 54: load_vector_db or analyze_company raises.
AnalyzeFails(r) ==
    /\ req[r].pc = "analyze"
    /\ PropagateError(r)

\* Variant of report_data: the filename is a fixed name, not the returned one.
report_data_fixed_name(uid, result) ==
    IF HasKey(result, "summary_report_file")
    THEN <<[user_id |-> uid, filename |-> "a.md", format |-> "MD"]>>
    ELSE <<>>

\* Variant of report_data: result.get("summary_report_file", ...) with a
\* default in place of the subscript.
report_data_default(uid, result) ==
    <<[user_id |-> uid,
       filename |-> IF HasKey(result, "summary_report_file")
                    THEN result["summary_report_file"] ELSE "a.md",
       format |-> "MD"]>>

\* agent.py 57-61: UserCreateReport(...); result["summary_report_file"] raises
\* KeyError when the key is absent (the empty sequence here).
report_data(uid, result) ==
    IF HasKey(result, "summary_report_file")
    THEN <<[user_id |-> uid, filename |-> result["summary_report_file"],
            format |-> "MD"]>>
    ELSE <<>>

\* agent.py 62: the report row is inserted in the request's session.
\* user_data was last read by the analysis call and is not kept.
InsertReport(r, result, utcnow) ==
    /\ req' = [req EXCEPT ![r].pc = "write_recs",
                          ![r].user_data = <<>>,
                          ![r].result = result,
                          ![r].new_report =
                              {create_user_report(report_data(req[r].user, result)[1],
                                                  utcnow)}]
    /\ next_id' = next_id + 1
    /\ resp' = NoResponse
    /\ UNCHANGED <<users, agents, reports, recs, next_rec, completed>>

\* Variant of WriteReport: a report the user already has under the returned
\* filename is reused, and no row is inserted.
WriteReportOnce(r, result) ==
    /\ req[r].pc = "analyze"
    /\ IF report_data(req[r].user, result) = <<>>
       THEN PropagateError(r)
       ELSE IF \E x \in reports : /\ x.user_id = req[r].user
                                  /\ x.filename = result["summary_report_file"]
            THEN /\ req' = [req EXCEPT ![r].pc = "write_recs", ![r].user_data = <<>>,
                                       ![r].result = result]
                 /\ resp' = NoResponse
                 /\ UNCHANGED <<users, agents, reports, recs, next_id, next_rec, completed>>
            ELSE /\ next_id <= MaxReports
                 /\ \E utcnow \in Times : InsertReport(r, result, utcnow)

\* agent.py 51-62: from the lookup's result to the next await. The analysis
\* (a synchronous call) returns result; the report row is built and inserted.
WriteReport(r, result) ==
    /\ req[r].pc = "analyze"
    /\ IF report_data(req[r].user, result) = <<>>
       THEN PropagateError(r)
       ELSE /\ next_id <= MaxReports
            /\ \E utcnow \in Times : InsertReport(r, result, utcnow)

\* agent.py 62: the analysis returned, and create_user_report raises (a
\* storage failure).
WriteReportFails(r) ==
    /\ req[r].pc = "analyze"
    /\ PropagateError(r)

\* agent.py 65-69: one recommendation row per element of
\* result["recommended_agents"]; KeyError when the key is absent.
WriteRecs(r) ==
    /\ req[r].pc = "write_recs"
    /\ IF HasKey(req[r].result, "recommended_agents")
       THEN LET rows == create_recommended_agents(req[r].user,
                                                  req[r].result["recommended_agents"])
            IN /\ req' = [req EXCEPT ![r].pc = "return", ![r].new_recs = rows]
               /\ next_rec' = next_rec + Cardinality(rows)
               /\ resp' = NoResponse
               /\ UNCHANGED <<users, agents, reports, recs, next_id, completed>>
       ELSE PropagateError(r)

\* agent.py 65: create_recommended_agents raises (a storage failure).
WriteRecsFails(r) ==
    /\ req[r].pc = "write_recs"
    /\ HasKey(req[r].result, "recommended_agents")
    /\ PropagateError(r)

\* The session provider releases the request's session: what the request
\* inserted becomes part of the tables.
commit(r) ==
    /\ reports' = reports \cup req[r].new_report
    /\ recs' = recs \cup req[r].new_recs

\* Variant of Return: the new report takes the place of the user's earlier
\* reports.
ReturnOverwrites(r) ==
    /\ req[r].pc = "return"
    /\ reports' = {x \in reports : x.user_id # req[r].user} \cup req[r].new_report
    /\ recs' = recs \cup req[r].new_recs
    /\ req' = [req EXCEPT ![r] = Ended("done", req[r].user)]
    /\ completed' = [completed EXCEPT ![req[r].user] = @ + 1]
    /\ resp' = NoResponse
    /\ UNCHANGED <<users, agents, next_id, next_rec>>

\* agent.py 71: return new_report; the request ends.
Return(r) ==
    /\ req[r].pc = "return"
    /\ commit(r)
    /\ req' = [req EXCEPT ![r] = Ended("done", req[r].user)]
    /\ completed' = [completed EXCEPT ![req[r].user] = @ + 1]
    /\ resp' = NoResponse
    /\ UNCHANGED <<users, agents, next_id, next_rec>>

\* The slot of an ended request is free for the next request.
Forget(r) ==
    /\ req[r].pc \in {"done", "error"}
    /\ req' = [req EXCEPT ![r] = IdleReq]
    /\ resp' = NoResponse
    /\ UNCHANGED <<users, agents, reports, recs, next_id, next_rec, completed>>

\* --------------------------------------------------------- read endpoints
Response(op, caller, arg, status) ==
    [op |-> op, caller |-> caller, arg |-> arg, status |-> status,
     reports |-> {}, agents |-> {}, recs |-> {}, text |-> <<>>]

\* agent.py 78-81
get_my_recommended_agents(u) ==
    LET result == get_recommended_agents_by_user(u)
    IN IF result = {}
       THEN Response("get_my_recommended_agents", u, 0, 404)
       ELSE [Response("get_my_recommended_agents", u, 0, 200) EXCEPT !.recs = result]

\* Variant of get_my_reports: every report, whoever owns it.
get_my_reports_unfiltered(u) ==
    [Response("get_my_reports", u, 0, 200) EXCEPT !.reports = reports]

\* agent.py 89-90
get_my_reports(u) ==
    [Response("get_my_reports", u, 0, 200) EXCEPT !.reports = get_reports_by_user_id(u)]

\* agent.py 98-112: the fixed projection of an agent row
AgentProjection(agent) ==
    [agent_id |-> agent.agent_id, name |-> agent.name,
     display_name |-> agent.display_name, description |-> agent.description,
     category |-> agent.category, llm_type |-> agent.llm_type,
     language |-> agent.language, features |-> agent.features,
     is_active |-> agent.is_active, image_url |-> agent.image_url]

\* agent.py 94-112
get_all_agents(caller) ==
    [Response("get_all_agents", caller, 0, 200)
        EXCEPT !.agents = {AgentProjection(a) : a \in crud_get_all_agents}]

\* agent.py 121-124
get_report(u, report_id) ==
    LET report == get_report_by_id(report_id)
    IN IF report = {} \/ (\E x \in report : x.user_id # u)
       THEN Response("get_report", u, report_id, 404)
       ELSE [Response("get_report", u, report_id, 200) EXCEPT !.reports = report]

\* Variant of get_report_content: the test for the owner is missing.
get_report_content_unchecked(u, report_id) ==
    LET report == get_report_by_id(report_id)
    IN IF report = {}
       THEN Response("get_report_content", u, report_id, 404)
       ELSE [Response("get_report_content", u, report_id, 200)
                EXCEPT !.text = read_report_markdown_content(CHOOSE x \in report : TRUE)]

\* agent.py 134-140
get_report_content(u, report_id) ==
    LET report == get_report_by_id(report_id)
    IN IF report = {} \/ (\E x \in report : x.user_id # u)
       THEN Response("get_report_content", u, report_id, 404)
       ELSE [Response("get_report_content", u, report_id, 200)
                EXCEPT !.text = read_report_markdown_content(CHOOSE x \in report : TRUE)]

\* Variant of get_agent_detail: the endpoint asks for a logged-in user.
get_agent_detail_owned(caller, agent_id) ==
    LET agent_info == get_agent_by_id(agent_id)
    IN IF agent_info = {} \/ caller \notin Users
       THEN Response("get_agent_detail", caller, agent_id, 404)
       ELSE [Response("get_agent_detail", caller, agent_id, 200)
                EXCEPT !.agents = agent_info]

\* agent.py 143-150
get_agent_detail(caller, agent_id) ==
    LET agent_info == get_agent_by_id(agent_id)
    IN IF agent_info = {}
       THEN Response("get_agent_detail", caller, agent_id, 404)
       ELSE [Response("get_agent_detail", caller, agent_id, 200)
                EXCEPT !.agents = agent_info]

Respond(r) ==
    /\ resp' = r
    /\ UNCHANGED <<users, agents, reports, recs, next_id, next_rec, req, completed>>

GetMyRecommendedAgents(u) == Respond(get_my_recommended_agents(u))
GetMyReports(u) == Respond(get_my_reports(u))
GetAllAgents(caller) == Respond(get_all_agents(caller))
GetReport(u, rid) == Respond(get_report(u, rid))
GetReportContent(u, rid) == Respond(get_report_content(u, rid))
GetAgentDetail(caller, aid) == Respond(get_agent_detail(caller, aid))

\* POST /agent/analyze, for the requests of R
Analyze(R) ==
    \/ \E r \in R, u \in Users : Lookup(r, u)
    \/ \E r \in R : AnalyzeFails(r)
    \/ \E r \in R, p \in Payloads : WriteReport(r, p)
    \/ \E r \in R : WriteReportFails(r)
    \/ \E r \in R : WriteRecs(r)
    \/ \E r \in R : WriteRecsFails(r)
    \/ \E r \in R : Return(r)
    \/ \E r \in R : Forget(r)

\* The GET endpoints. /agent/all and /agent/detail/{agent_id} take no
\* current_user: here they are called without a credential (SpecCatalog
\* has them called by every caller).
Read ==
    \/ \E u \in Users : GetMyRecommendedAgents(u)
    \/ \E u \in Users : GetMyReports(u)
    \/ GetAllAgents(Anonymous)
    \/ \E u \in Users, rid \in ReportIds : GetReport(u, rid)
    \/ \E u \in Users, rid \in ReportIds : GetReportContent(u, rid)
    \/ \E aid \in QueriedAgentIds : GetAgentDetail(Anonymous, aid)

\* Concurrent analysis requests.
Next == Analyze(Requests)

Spec == Init /\ [][Next]_vars

\* Every endpoint: analysis requests one at a time, the GET endpoints at any
\* moment.
NextRead == Analyze(OneAtATime) \/ Read

SpecRead == Init /\ [][NextRead]_vars

\* The two endpoints of the agent catalog, over every catalog.
InitCatalog ==
    /\ \E c \in SUBSET QueriedAgentIds : agents = {AgentRow(i) : i \in c}
    /\ users = InitUsers
    /\ reports = {}
    /\ recs = {}
    /\ next_id = 1
    /\ next_rec = 1
    /\ req = [r \in Requests |-> IdleReq]
    /\ completed = [u \in Users |-> 0]
    /\ resp = NoResponse

NextCatalog ==
    \/ \E c \in Users \cup {Anonymous} : GetAllAgents(c)
    \/ \E c \in Users \cup {Anonymous}, aid \in QueriedAgentIds : GetAgentDetail(c, aid)

SpecCatalog == InitCatalog /\ [][NextCatalog]_vars

\* The scale tier of the profile summary, over a range of scales: two users
\* of the same scale and different profiles start requests.
InitTier ==
    /\ \E sc \in ScaleRange :
          users = [u \in Users |->
                     IF u = 1 THEN UserRow(u, <<"it">>, sc, <<>>)
                     ELSE UserRow(u, <<>>, sc, <<"ai">>)]
    /\ agents = {AgentRow(i) : i \in AgentIds}
    /\ reports = {}
    /\ recs = {}
    /\ next_id = 1
    /\ next_rec = 1
    /\ req = [r \in Requests |-> IdleReq]
    /\ completed = [u \in Users |-> 0]
    /\ resp = NoResponse

NextTier == \E r \in Requests, u \in Users : Lookup(r, u)

SpecTier == InitTier /\ [][NextTier]_vars

\* ------------------------------------------------------------ properties
OwnedBy(u) == {x \in reports : x.user_id = u}

\* C1: a get_report or get_report_content call by user u for report id r
\* ends in 404, with no report and no file content in the response, whenever
\* r does not exist or belongs to another user; a 200 response carries only
\* the report r whose user_id is u.
OwnershipOnRead ==
    resp.op \in {"get_report", "get_report_content"} =>
        LET owned == \E x \in reports : x.id = resp.arg /\ x.user_id = resp.caller
        IN /\ resp.status \in {200, 404}
           /\ ~owned => /\ resp.status = 404
                        /\ resp.reports = {}
                        /\ resp.text = <<>>
           /\ resp.status = 200 =>
                /\ owned
                /\ \A x \in resp.reports : x.id = resp.arg /\ x.user_id = resp.caller
                /\ resp.op = "get_report" => resp.reports # {}
                /\ resp.op = "get_report_content" =>
                     \E x \in OwnedBy(resp.caller) :
                        x.id = resp.arg /\ resp.text = <<"content of", x.filename>>

\* C1 witness: a content request for a report that exists and belongs to
\* another user was answered 404.
OtherUsersReportRefused ==
    /\ resp.op = "get_report_content"
    /\ resp.status = 404
    /\ \E x \in reports : x.id = resp.arg /\ x.user_id # resp.caller

\* C2: the step that ends a successful run_company_analysis of user u adds
\* exactly one report row, owned by u, with the returned filename and the MD
\* format, and exactly N recommendation rows, all of u, N being the length of
\* the returned recommended_agents list; it adds nothing else.
AnalyzeAddsRows ==
    [][\A r \in Requests :
         (req[r].pc = "return" /\ req'[r].pc = "done") =>
            LET u == req[r].user
                result == req[r].result
            IN /\ reports \subseteq reports'
               /\ recs \subseteq recs'
               /\ Cardinality(reports') = Cardinality(reports) + 1
               /\ \A x \in reports' \ reports :
                     /\ x.user_id = u
                     /\ HasKey(result, "summary_report_file")
                     /\ x.filename = result["summary_report_file"]
                     /\ x.format = "MD"
               /\ HasKey(result, "recommended_agents")
               /\ Cardinality(recs') =
                     Cardinality(recs) + Len(result["recommended_agents"])
               /\ \A y \in recs' \ recs : y.user_id = u]_vars

\* C2 witness: a request has returned, and a report and a recommendation of
\* its user are stored.
AnalysisStored ==
    \E r \in Requests :
        /\ req[r].pc = "done"
        /\ OwnedBy(req[r].user) # {}
        /\ \E y \in recs : y.user_id = req[r].user

\* C3: get_my_reports called by u returns every report owned by u and no
\* report owned by anybody else.
MyReportsAreMine ==
    resp.op = "get_my_reports" =>
        /\ resp.status = 200
        /\ \A x \in reports : x.user_id = resp.caller => x \in resp.reports
        /\ \A x \in resp.reports : x \in reports /\ x.user_id = resp.caller

\* C3 witness: the list was returned non-empty while another user had a
\* report too.
MyReportsAmongOthers ==
    /\ resp.op = "get_my_reports"
    /\ resp.reports # {}
    /\ \E x \in reports : x.user_id # resp.caller

\* C4: the tier in the profile summary depends on the user's scale alone:
\* below 50 startup, from 50 and below 300 SMB, from 300 enterprise; 49 is
\* startup, 50 and 299 are SMB, 300 is enterprise.
TierOf(r) == req[r].user_data.scale
ScaleOf(r) == users[req[r].user].scale

ScaleTierThresholds ==
    \A r \in Requests :
        req[r].pc = "analyze" =>
            /\ TierOf(r) \in {"startup", "SMB", "enterprise"}
            /\ (TierOf(r) = "startup") = (ScaleOf(r) <= 49)
            /\ (TierOf(r) = "SMB") = (ScaleOf(r) >= 50 /\ ScaleOf(r) <= 299)
            /\ (TierOf(r) = "enterprise") = (ScaleOf(r) >= 300)
            /\ \A q \in Requests :
                  (req[q].pc = "analyze" /\ ScaleOf(q) = ScaleOf(r)) => TierOf(q) = TierOf(r)

\* C4 witness: requests of both users of scale 50 have built their summary.
TierAtFifty ==
    \A r \in Requests :
        /\ req[r].pc = "analyze"
        /\ ScaleOf(r) = 50
        /\ \E q \in Requests : req[q].user # req[r].user

\* C5: the created_date the lookup step leaves in the profile summary of
\* user u is None when u owns no report at that moment, and otherwise the
\* largest created_date among the reports u owns; the request has inserted
\* nothing of its own by then.
LatestDateIsOwnMaximum ==
    [][\A r \in Requests :
         (req[r].pc = "idle" /\ req'[r].pc = "analyze") =>
            LET own == {x \in reports : x.user_id = req'[r].user}
                d == req'[r].user_data.created_date
            IN /\ req'[r].new_report = {}
               /\ own = {} => d = <<>>
               /\ own # {} =>
                    /\ Len(d) = 1
                    /\ \E x \in own : x.created_date = d[1]
                    /\ \A x \in own : x.created_date <= d[1]]_vars

\* C5 witness: a request looked up date 0 for its user, who has a report,
\* while another user's report carries the later date 1.
LatestDateIgnoresOthers ==
    \E r \in Requests :
        /\ req[r].pc = "analyze"
        /\ req[r].user_data.created_date = <<0>>
        /\ OwnedBy(req[r].user) # {}
        /\ \E x \in reports : x.user_id # req[r].user /\ x.created_date = 1

\* C6: the step that ends a run_company_analysis request either stores the
\* report row together with all N recommendation rows the request inserted,
\* or stores none of them and leaves both tables as they were.
AllPersisted(r) ==
    /\ req[r].new_report # {}
    /\ req[r].new_report \subseteq reports'
    /\ req[r].new_recs \subseteq recs'
    /\ HasKey(req[r].result, "recommended_agents")
    /\ Cardinality(req[r].new_recs) = Len(req[r].result["recommended_agents"])

NonePersisted(r) ==
    /\ req[r].new_report \cap reports' = {}
    /\ req[r].new_recs \cap recs' = {}
    /\ reports' = reports
    /\ recs' = recs

CatalogIsPublic ==
    /\ resp.op = "get_all_agents" =>
          /\ resp.status = 200
          /\ resp.agents = agents
    /\ resp.op = "get_agent_detail" =>
          /\ (resp.status = 404) = (\A a \in agents : a.agent_id # resp.arg)
          /\ resp.status # 404 =>
                /\ resp.status = 200
                /\ resp.agents # {}
                /\ \A a \in resp.agents : a \in agents /\ a.agent_id = resp.arg

\* C7 witness: a caller without a credential was given an agent's detail.
AnonymousAgentDetail ==
    /\ resp.op = "get_agent_detail"
    /\ resp.caller = Anonymous
    /\ resp.status = 200

\* C8: no step removes or changes a stored report or recommendation row, the
\* agent and user tables never change, and a step that answers a GET endpoint
\* (with 200 or with 404) leaves all four tables as they were.
RowsOnlyAdded ==
    [][/\ reports \subseteq reports'
       /\ recs \subseteq recs'
       /\ agents' = agents
       /\ users' = users
       /\ resp'.op # "none" => (reports' = reports /\ recs' = recs)]_vars

\* C8 witness: a user with two stored reports was answered 404.
NotFoundWithReportsStored ==
    /\ resp.status = 404
    /\ Cardinality(OwnedBy(resp.caller)) = 2

\* C9: a user's stored reports number exactly the user's requests that
\* returned: none is lost and none is merged.
OneReportPerReturnedRequest ==
    \A u \in Users : Cardinality(OwnedBy(u)) = completed[u]

\* C9 witness: two requests of one user, who has a report, have both done
\* their lookup before either wrote, and hold the same latest-report date.
TwoLookupsSameDate ==
    \E r, q \in Requests :
        /\ r # q
        /\ req[r].pc = "analyze" /\ req[q].pc = "analyze"
        /\ req[r].user = req[q].user
        /\ OwnedBy(req[r].user) # {}
        /\ req[r].user_data.created_date = req[q].user_data.created_date

\* C10: a request does its lookup, then the analysis, then the report
\* insert, then the recommendation insert; it has inserted nothing while the
\* analysis is ahead, it passes the analysis only with a payload that has the
\* summary_report_file key, and when it ends at the analysis both tables and
\* the report ids are as they were.
WritesFollowAnalysis ==
    [][\A r \in Requests :
         /\ req[r].pc = "idle" => req'[r].pc \in {"idle", "analyze"}
         /\ req[r].pc = "analyze" =>
               /\ req[r].new_report = {} /\ req[r].new_recs = {}
               /\ req'[r].pc \in {"analyze", "write_recs", "error"}
               /\ req'[r].pc = "write_recs" =>
                     /\ HasKey(req'[r].result, "summary_report_file")
                     /\ req'[r].new_report # {}
                     /\ req'[r].new_recs = {}
               /\ req'[r].pc = "error" =>
                     /\ reports' = reports
                     /\ recs' = recs
                     /\ next_id' = next_id
                     /\ next_rec' = next_rec
         /\ req[r].pc = "write_recs" => req'[r].pc \in {"write_recs", "return", "error"}
         /\ req[r].pc = "return" => req'[r].pc \in {"return", "done"}]_vars

\* C10 witness: a request ended in error before any report id was handed out.
FailedBeforeAnyWrite ==
    /\ \E r \in Requests : req[r].pc = "error"
    /\ next_id = 1
    /\ reports = {}
====
